---- MODULE Spec2Model ----
(***************************************************************************)
(* Model of script/02_get_SNP_data.py: the region-extraction pipeline.     *)
(*                                                                         *)
(* Text is modelled as a sequence of one-character strings, so that        *)
(* str.replace, int(), str() and the f-strings are computed character by   *)
(* character as Python computes them.  Files are read lazily, as           *)
(* csv.reader does: each loop iteration draws the next row from a small    *)
(* set of candidate rows.                                                  *)
(***************************************************************************)
EXTENDS Integers, Sequences, FiniteSets, TLC

\* ------------------------------------------------------------------ bounds

\* Largest number of data rows read from the locus table.
MaxRows == 2

\* Largest number of data rows read from the panel file.
MaxPanelRows == 2

\* ------------------------------------------------------ text primitives

DigitChars == <<"0", "1", "2", "3", "4", "5", "6", "7", "8", "9">>

Digits == {DigitChars[k] : k \in 1..10}

DigitVal(c) == (CHOOSE k \in 1..10 : DigitChars[k] = c) - 1

Whitespace == {" ", "\t", "\n", "\r"}

RECURSIVE LStrip(_)
LStrip(s) == IF s # <<>> /\ Head(s) \in Whitespace THEN LStrip(Tail(s)) ELSE s

RECURSIVE RStrip(_)
RStrip(s) ==
    IF s # <<>> /\ s[Len(s)] \in Whitespace
    THEN RStrip(SubSeq(s, 1, Len(s) - 1))
    ELSE s

\* str.strip()
Strip(s) == RStrip(LStrip(s))

\* The digit part of an integer literal: digits, single underscores between.
IsDigitRun(s) ==
    /\ s # <<>>
    /\ s[1] \in Digits
    /\ s[Len(s)] \in Digits
    /\ \A k \in 1..Len(s) :
          \/ s[k] \in Digits
          \/ s[k] = "_" /\ s[k - 1] \in Digits /\ s[k + 1] \in Digits

RECURSIVE DigitRunValue(_, _)
DigitRunValue(s, acc) ==
    IF s = <<>> THEN acc
    ELSE IF Head(s) = "_" THEN DigitRunValue(Tail(s), acc)
    ELSE DigitRunValue(Tail(s), 10 * acc + DigitVal(Head(s)))

\* A parse that never fails: text that is no integer literal reads as 0.
PyIntLenient(s) ==
    LET t == Strip(s)
        signed == t # <<>> /\ t[1] \in {"+", "-"}
        body == IF signed THEN Tail(t) ELSE t
        sign == IF signed /\ t[1] = "-" THEN -1 ELSE 1
    IN  [ok |-> TRUE,
         value |-> IF IsDigitRun(body) THEN sign * DigitRunValue(body, 0) ELSE 0]

\* int(text): ok = FALSE stands for ValueError.
PyInt(s) ==
    LET t == Strip(s)
        signed == t # <<>> /\ t[1] \in {"+", "-"}
        body == IF signed THEN Tail(t) ELSE t
        sign == IF signed /\ t[1] = "-" THEN -1 ELSE 1
    IN  IF IsDigitRun(body)
        THEN [ok |-> TRUE, value |-> sign * DigitRunValue(body, 0)]
        ELSE [ok |-> FALSE, value |-> 0]

RECURSIVE StrNat(_)
StrNat(n) ==
    IF n < 10 THEN <<DigitChars[n + 1]>>
    ELSE StrNat(n \div 10) \o <<DigitChars[(n % 10) + 1]>>

\* str(n), as an f-string formats an int.
Str(n) == IF n < 0 THEN <<"-">> \o StrNat(-n) ELSE StrNat(n)

\* str.replace(old, new) for a non-empty old: every non-overlapping
\* occurrence, scanning from the left.
RECURSIVE Replace(_, _, _)
Replace(s, old, new) ==
    IF Len(s) < Len(old) THEN s
    ELSE IF SubSeq(s, 1, Len(old)) = old
         THEN new \o Replace(SubSeq(s, Len(old) + 1, Len(s)), old, new)
         ELSE <<Head(s)>> \o Replace(Tail(s), old, new)

StartsWith(s, p) == Len(s) >= Len(p) /\ SubSeq(s, 1, Len(p)) = p

Max(a, b) == IF a >= b THEN a ELSE b

\* "name" in header
HasCol(hdr, name) == \E c \in 1..Len(hdr) : hdr[c] = name

\* header.index(name): 0-based position of the first cell equal to name.
IndexOf(hdr, name) ==
    (CHOOSE c \in 1..Len(hdr) :
        hdr[c] = name /\ \A d \in 1..(c - 1) : hdr[d] # name) - 1

\* row[idx] with a 0-based, non-negative idx; Fits is FALSE for IndexError.
Fits(row, idx) == idx + 1 <= Len(row)

Cell(row, idx) == row[idx + 1]

\* --------------------------------------------------------- configuration

SAS == <<"S", "A", "S">>

EUR == <<"E", "U", "R">>

\* POPULATION_CODE is configuration; the run is checked for these values.
PopulationCodes == {SAS, EUR}

\* The URL's literal text.  A run of literal characters that no match of
\* str.replace can touch (it holds no brace) is written as one element.
BASE_VCF_FTP_PATH == <<"http://ftp.1000genomes.ebi.ac.uk/vol1/ftp/release/20130502/">>

VCF_FILENAME_TEMPLATE ==
    <<"ALL.chr">>
    \o <<"{", "C", "H", "R", "O", "M", "O", "S", "O", "M", "E", "}">>
    \o <<".phase3_shapeit2_mvncall_integrated_v5b.20130502.genotypes.vcf.gz">>

ChromosomePlaceholder == <<"{", "C", "H", "R", "O", "M", "O", "S", "O", "M", "E", "}">>

REGION_WINDOW_SIZE == 10000

OUTPUT_DIR == <<"o", "u", "t", "p", "u", "t", "_", "v", "c", "f", "s">>

ChrPrefix == <<"c", "h", "r">>

\* The value of the loop variable i before the first iteration binds it.
Unbound == -1

\* rsid_col_idx when the header has no rsID column.
NoRsidColumn == -1

\* ------------------------------------------------------------ the inputs

\* Panel headers: the 1000 Genomes layout, a reordered one, one without
\* the super_pop column, and the empty file (no header line at all).
PanelHeaders ==
    { <<"sample", "pop", "super_pop", "gender">>,
      <<"super_pop", "sample">>,
      <<"sample", "pop">>,
      <<>> }

PanelRecords ==
    { [sample |-> <<"H", "G", "1">>, pop |-> <<"G", "B", "R">>,
       super_pop |-> EUR, gender |-> <<"m">>],
      [sample |-> <<"H", "G", "2">>, pop |-> <<"P", "J", "L">>,
       super_pop |-> SAS, gender |-> <<"f">>],
      [sample |-> <<"H", "G", "3">>, pop |-> SAS,
       super_pop |-> <<"S", "A", "S", " ">>, gender |-> <<"m">>],
      [sample |-> <<"H", "G", "4">>, pop |-> <<"B", "E", "B">>,
       super_pop |-> SAS, gender |-> <<"m">>] }

\* The line of a record under a header: each cell by its column's name.
LineOf(hdr, rec) == [c \in 1..Len(hdr) |-> rec[hdr[c]]]

Prefixes(row) == {SubSeq(row, 1, n) : n \in 0..Len(row)}

\* The data rows a panel with this header may hold: full lines and lines
\* cut short.
PanelRowCandidates(hdr) ==
    UNION {Prefixes(LineOf(hdr, rec)) : rec \in PanelRecords}

\* Locus table headers: the layout script 01 writes, one without rsID, one
\* without the position column, and the empty file.
TableHeaders ==
    { <<"rsID", "Chromosome", "Position_GRCh37">>,
      <<"Chromosome", "Position_GRCh37">>,
      <<"rsID", "Chromosome">>,
      <<>> }

LocusRecords ==
    { [rsID |-> <<"r", "s", "1">>, Chromosome |-> <<"1">>,
       Position_GRCh37 |-> <<"1", "0", "0", "0", "0", "0">>],
      [rsID |-> <<"r", "s", "2">>, Chromosome |-> <<"c", "h", "r", "X">>,
       Position_GRCh37 |-> <<"5", "0">>],
      [rsID |-> <<"r", "s", "3">>, Chromosome |-> <<"N", "A">>,
       Position_GRCh37 |-> <<"N", "A">>],
      [rsID |-> <<"r", "s", "4">>, Chromosome |-> <<"c", "c", "h", "r", "h", "r", "1">>,
       Position_GRCh37 |-> <<"-", "2", "0", "0", "0", "0">>],
      [rsID |-> <<"r", "s", "5">>, Chromosome |-> <<"1">>,
       Position_GRCh37 |-> <<"0">>] }

ShortRecord == CHOOSE rec \in LocusRecords : rec.rsID = <<"r", "s", "1">>

\* The data rows a table with this header may hold: full lines, the empty
\* line, and one line that lacks its last cell.
TableRowCandidates(hdr) ==
    {LineOf(hdr, rec) : rec \in LocusRecords}
    \cup {<<>>, SubSeq(LineOf(hdr, ShortRecord), 1, Len(hdr) - 1)}

\* What launching the external tool can do: the process runs and exits
\* with a status and some text on its error stream, or subprocess.run
\* (or os.makedirs before it) raises.
ReturnCodes == {0, 1}

LaunchOutcomes ==
    [kind : {"exited"}, returncode : ReturnCodes, stderr : {<<>>, <<"w">>}]
    \cup [kind : {"FileNotFoundError", "PermissionError", "OSError"},
          returncode : {0}, stderr : {<<>>}]

\* ------------------------------------------------------------- the state

VARIABLES
    pc,                      \* position of main()
    exit_status,             \* the process's exit status once it has ended
    population_code,         \* POPULATION_CODE
    index_runs,              \* calls of extract_samples so far
    panel_header,            \* extract_samples: header
    sample_col_idx,          \* extract_samples: sample_col_idx
    pop_col_idx,             \* extract_samples: pop_col_idx
    panel_rows,              \* extract_samples: rows the reader has yielded
    sample_count,            \* extract_samples: sample_count
    samples_file,            \* SAMPLES_FILE on disk
    header,                  \* main: header
    chr_col_idx,             \* main: chr_col_idx
    pos_col_idx,             \* main: pos_col_idx
    rsid_col_idx,            \* main: rsid_col_idx
    i,                       \* main: the loop variable i
    rows_read,               \* main: rows the reader has yielded
    successful_extractions,  \* main: successful_extractions
    failed_regions,          \* main: failed_regions
    calls,                   \* the calls of run_bcftools so far: row, position, destination
    last_call,               \* the call made for the latest row: arguments and result
    summary                  \* the final summary, once printed

vars ==
    <<pc, exit_status, population_code, index_runs, panel_header, sample_col_idx,
      pop_col_idx, panel_rows, sample_count, samples_file, header, chr_col_idx,
      pos_col_idx, rsid_col_idx, i, rows_read, successful_extractions,
      failed_regions, calls, last_call, summary>>

panelVars ==
    <<index_runs, panel_header, sample_col_idx, pop_col_idx, panel_rows,
      sample_count, samples_file>>

tableVars ==
    <<header, chr_col_idx, pos_col_idx, rsid_col_idx, i, rows_read,
      successful_extractions, failed_regions, calls, last_call, summary>>

NoFile == [exists |-> FALSE, lines |-> <<>>]

NoCall == [made |-> FALSE]

NoSummary == [printed |-> FALSE]

Init ==
    /\ pc = "Init"
    /\ exit_status = 0
    /\ population_code \in PopulationCodes
    /\ index_runs = 0
    /\ panel_header = <<>>
    /\ sample_col_idx = 0
    /\ pop_col_idx = 0
    /\ panel_rows = <<>>
    /\ sample_count = 0
    /\ samples_file \in {NoFile, [exists |-> TRUE, lines |-> <<<<"o", "l", "d">>>>]}
    /\ header = <<>>
    /\ chr_col_idx = 0
    /\ pos_col_idx = 0
    /\ rsid_col_idx = NoRsidColumn
    /\ i = Unbound
    /\ rows_read = <<>>
    /\ successful_extractions = <<>>
    /\ failed_regions = <<>>
    /\ calls = <<>>
    /\ last_call = NoCall
    /\ summary = NoSummary

\* sys.exit(status), or an uncaught exception (status 1).
Exit(status) ==
    /\ pc' = "Exited"
    /\ exit_status' = status

\* ------------------------------------------------------- extract_samples

\* Main, step 1: the panel file must be a file.
CheckPanel ==
    /\ pc = "Init"
    /\ \E isfile \in BOOLEAN :
          IF isfile THEN pc' = "IndexingPanel" /\ UNCHANGED exit_status
          ELSE Exit(1)
    /\ UNCHANGED <<population_code, panelVars, tableVars>>

\* A row that is long enough but whose label is not compared.
RowMatchesAnyLabel(row, sidx, pidx, code) == Len(row) > Max(sidx, pidx)

\* The test of the row loop.
RowMatches(row, sidx, pidx, code) ==
    Len(row) > Max(sidx, pidx) /\ Cell(row, pidx) = code

\* extract_samples up to the row loop: both files are opened (the output
\* is truncated), the header is read and the two columns are looked up.
OpenPanel ==
    /\ pc = "IndexingPanel"
    /\ index_runs' = index_runs + 1
    /\ \E panel_open \in {"ok", "FileNotFoundError", "PermissionError"},
          samples_open \in {"ok", "OSError"},
          hdr \in PanelHeaders :
          IF panel_open # "ok" \/ samples_open # "ok"
          THEN /\ Exit(1)
               /\ UNCHANGED <<panel_header, sample_col_idx, pop_col_idx, samples_file>>
          ELSE /\ samples_file' = [exists |-> TRUE, lines |-> <<>>]
               /\ IF hdr = <<>>
                  THEN \* next(reader) raises StopIteration
                       /\ Exit(1)
                       /\ UNCHANGED <<panel_header, sample_col_idx, pop_col_idx>>
                  ELSE /\ panel_header' = hdr
                       /\ IF HasCol(hdr, "sample") /\ HasCol(hdr, "super_pop")
                          THEN /\ sample_col_idx' = IndexOf(hdr, "sample")
                               /\ pop_col_idx' = IndexOf(hdr, "super_pop")
                               /\ pc' = "PanelRows"
                               /\ UNCHANGED exit_status
                          ELSE /\ Exit(1)
                               /\ UNCHANGED <<sample_col_idx, pop_col_idx>>
    /\ UNCHANGED <<population_code, panel_rows, sample_count, tableVars>>

\* One iteration of the row loop.
PanelRow ==
    /\ pc = "PanelRows"
    /\ Len(panel_rows) < MaxPanelRows
    /\ \E row \in PanelRowCandidates(panel_header) :
          /\ panel_rows' = Append(panel_rows, row)
          /\ IF RowMatches(row, sample_col_idx, pop_col_idx, population_code)
             THEN /\ samples_file' =
                        [samples_file EXCEPT
                            !.lines = Append(@, Cell(row, sample_col_idx))]
                  /\ sample_count' = sample_count + 1
             ELSE UNCHANGED <<samples_file, sample_count>>
    /\ UNCHANGED <<pc, exit_status, population_code, index_runs, panel_header,
                   sample_col_idx, pop_col_idx, tableVars>>

\* The end of the panel: the files are closed, and the count decides between
\* returning to main and sys.exit(1).  The function's locals end with it.
PanelEnd ==
    /\ pc = "PanelRows"
    /\ IF sample_count > 0
       THEN /\ pc' = "OpenTable"
            /\ panel_header' = <<>>
            /\ panel_rows' = <<>>
            /\ sample_col_idx' = 0
            /\ pop_col_idx' = 0
            /\ UNCHANGED exit_status
       ELSE /\ Exit(1)
            /\ UNCHANGED <<panel_header, panel_rows, sample_col_idx, pop_col_idx>>
    /\ UNCHANGED <<population_code, index_runs, sample_count, samples_file, tableVars>>

\* ------------------------------------------------- the per-row functions

\* chromosome.replace('chr', '')
chromosome_cleaned(chromosome) == Replace(chromosome, ChrPrefix, <<>>)

\* A fallback label that leaves the row number out.
LabelUnnumbered(row, ridx, idx) ==
    IF ridx # NoRsidColumn THEN Cell(row, ridx)
    ELSE <<"r", "e", "g", "i", "o", "n", "_">>

\* rsid: the identifier cell, or region_<i+1> when there is no such column.
Label(row, ridx, idx) ==
    IF ridx # NoRsidColumn THEN Cell(row, ridx)
    ELSE <<"r", "e", "g", "i", "o", "n", "_">> \o Str(idx + 1)

start_pos(position) == Max(1, position - REGION_WINDOW_SIZE)

end_pos(position) == position + REGION_WINDOW_SIZE

\* f"{chromosome_cleaned}:{start_pos}-{end_pos}"
region_str(cleaned, start, end) ==
    cleaned \o <<":">> \o Str(start) \o <<"-">> \o Str(end)

\* BASE_VCF_FTP_PATH + VCF_FILENAME_TEMPLATE.replace("{CHROMOSOME}", cleaned)
dynamic_vcf_url(cleaned) ==
    BASE_VCF_FTP_PATH \o Replace(VCF_FILENAME_TEMPLATE, ChromosomePlaceholder, cleaned)

\* os.path.join(a, b) for a non-empty a that does not end in a slash.
PathJoin(a, b) ==
    IF b # <<>> /\ b[1] = "/" THEN b ELSE a \o <<"/">> \o b

\* os.path.join(OUTPUT_DIR,
\*   f"{rsid}_chr{chromosome}_{start_pos}_{end_pos}_GRCh37_{POPULATION_CODE}_subset.vcf.gz")
output_filename(rsid, chromosome, start, end, code) ==
    PathJoin(OUTPUT_DIR,
             rsid \o <<"_", "c", "h", "r">> \o chromosome
                  \o <<"_">> \o Str(start) \o <<"_">> \o Str(end)
                  \o <<"_", "G", "R", "C", "h", "3", "7", "_">> \o code
                  \o <<"_", "s", "u", "b", "s", "e", "t", ".", "v", "c", "f", ".", "g", "z">>)

\* The try block of the loop body up to the call raises IndexError or
\* ValueError exactly when this is FALSE.
RowValid(row, cidx, pidx, ridx) ==
    /\ Fits(row, cidx)
    /\ Fits(row, pidx)
    /\ PyInt(Cell(row, pidx)).ok
    /\ ridx # NoRsidColumn => Fits(row, ridx)

\* A reading of the result that takes text on the error stream for failure.
run_bcftools_stderr(outcome) ==
    IF outcome.kind = "exited"
    THEN IF outcome.returncode # 0 \/ outcome.stderr # <<>> THEN "False" ELSE "True"
    ELSE IF outcome.kind = "FileNotFoundError" THEN "SystemExit" ELSE "False"

\* run_bcftools: what the call gives back for each thing the launch can do.
run_bcftools(outcome) ==
    IF outcome.kind = "exited"
    THEN IF outcome.returncode # 0 THEN "False" ELSE "True"
    ELSE IF outcome.kind = "FileNotFoundError" THEN "SystemExit" ELSE "False"

\* The entries of failed_regions: f"{region_str} (Source: {dynamic_vcf_url})"
\* and f"Row {i+2} (Invalid Data: {row})", kept as their parts.
FailedExtraction(region, url) ==
    [kind |-> "Source", row_number |-> 0, row |-> <<>>, region |-> region, source |-> url]

InvalidData(number, row) ==
    [kind |-> "Invalid Data", row_number |-> number, row |-> row,
     region |-> <<>>, source |-> <<>>]

\* ------------------------------------------------------------------ main

\* Main, step 4 up to the row loop: the table must be a file, the output
\* directory is made, the table is opened, its header read and its columns
\* looked up.
OpenTable ==
    /\ pc = "OpenTable"
    /\ \E isfile \in BOOLEAN, makedirs \in {"ok", "OSError"},
          table_open \in {"ok", "FileNotFoundError", "PermissionError"},
          hdr \in TableHeaders :
          IF ~isfile \/ makedirs # "ok" \/ table_open # "ok" \/ hdr = <<>>
          THEN /\ Exit(1)
               /\ UNCHANGED <<header, chr_col_idx, pos_col_idx, rsid_col_idx>>
          ELSE /\ header' = hdr
               /\ IF HasCol(hdr, "Chromosome") /\ HasCol(hdr, "Position_GRCh37")
                  THEN /\ chr_col_idx' = IndexOf(hdr, "Chromosome")
                       /\ pos_col_idx' = IndexOf(hdr, "Position_GRCh37")
                       /\ rsid_col_idx' =
                             IF HasCol(hdr, "rsID") THEN IndexOf(hdr, "rsID")
                             ELSE NoRsidColumn
                       /\ pc' = "ReadingLoci"
                       /\ UNCHANGED exit_status
                  ELSE /\ Exit(1)
                       /\ UNCHANGED <<chr_col_idx, pos_col_idx, rsid_col_idx>>
    /\ UNCHANGED <<population_code, panelVars, i, rows_read, successful_extractions,
                   failed_regions, calls, last_call, summary>>

\* One iteration of the loop over the table's rows.
ReadRow ==
    /\ pc = "ReadingLoci"
    /\ Len(rows_read) < MaxRows
    /\ \E row \in TableRowCandidates(header) :
          LET idx == IF i = Unbound THEN 0 ELSE i + 1
          IN  /\ i' = idx
              /\ rows_read' = Append(rows_read, row)
              /\ IF ~RowValid(row, chr_col_idx, pos_col_idx, rsid_col_idx)
                 THEN /\ failed_regions' = Append(failed_regions, InvalidData(idx + 2, row))
                      /\ last_call' = NoCall
                      /\ UNCHANGED <<pc, exit_status, successful_extractions, calls>>
                 ELSE LET chromosome == Cell(row, chr_col_idx)
                          cleaned == chromosome_cleaned(chromosome)
                          position == PyInt(Cell(row, pos_col_idx)).value
                          rsid == Label(row, rsid_col_idx, idx)
                          start == start_pos(position)
                          end == end_pos(position)
                          region == region_str(cleaned, start, end)
                          url == dynamic_vcf_url(cleaned)
                          output == output_filename(rsid, chromosome, start, end,
                                                    population_code)
                      IN  \E outcome \in LaunchOutcomes :
                          LET result == run_bcftools(outcome) IN
                          /\ calls' = Append(calls, [row_index |-> idx, position |-> position,
                                                 output |-> output])
                          /\ last_call' =
                                [made |-> TRUE, chromosome |-> chromosome,
                                 cleaned |-> cleaned, position |-> position,
                                 start |-> start, end |-> end, region |-> region,
                                 url |-> url, samples |-> samples_file.lines,
                                 output |-> output, outcome |-> outcome,
                                 result |-> result]
                          /\ IF result = "SystemExit"
                             THEN /\ Exit(1)
                                  /\ UNCHANGED <<successful_extractions, failed_regions>>
                             ELSE /\ UNCHANGED <<pc, exit_status>>
                                  /\ IF result = "True"
                                     THEN /\ successful_extractions' =
                                                Append(successful_extractions, output)
                                          /\ UNCHANGED failed_regions
                                     ELSE /\ failed_regions' =
                                                Append(failed_regions,
                                                       FailedExtraction(region, url))
                                          /\ UNCHANGED successful_extractions
    /\ UNCHANGED <<population_code, panelVars, header, chr_col_idx, pos_col_idx,
                   rsid_col_idx, summary>>

\* The reader is exhausted: the loop and the with block end, and with them
\* the last call's result.
EndOfTable ==
    /\ pc = "ReadingLoci"
    /\ pc' = "Finalizing"
    /\ last_call' = NoCall
    /\ UNCHANGED <<exit_status, population_code, panelVars, header, chr_col_idx,
                   pos_col_idx, rsid_col_idx, i, rows_read, successful_extractions,
                   failed_regions, calls, summary>>

\* The summary.  Its second line formats i + 1: with no data row read, i was
\* never bound and the line raises NameError, which nothing catches.
Finalize ==
    /\ pc = "Finalizing"
    /\ IF i = Unbound
       THEN /\ Exit(1)
            /\ UNCHANGED summary
       ELSE /\ summary' = [printed |-> TRUE, attempted |-> i + 1,
                           succeeded |-> Len(successful_extractions),
                           failed |-> failed_regions]
            /\ pc' = "Done"
            /\ UNCHANGED exit_status
    /\ UNCHANGED <<population_code, panelVars, header, chr_col_idx, pos_col_idx,
                   rsid_col_idx, i, rows_read, successful_extractions,
                   failed_regions, calls, last_call>>

Next ==
    \/ CheckPanel
    \/ OpenPanel
    \/ PanelRow
    \/ PanelEnd
    \/ OpenTable
    \/ ReadRow
    \/ EndOfTable
    \/ Finalize

Spec == Init /\ [][Next]_vars

\* ---------------------------------------------------------------- claims

Last(seq) == seq[Len(seq)]

\* Text that holds a character no integer literal holds, or nothing at all.
NonNumeric(s) ==
    \/ s = <<>>
    \/ \E k \in 1..Len(s) : s[k] \notin Digits \cup Whitespace \cup {"+", "-", "_"}

\* Plain decimal text: digits, after an optional minus sign.
PlainDecimal(s) ==
    LET body == IF s # <<>> /\ s[1] = "-" THEN Tail(s) ELSE s
    IN  body # <<>> /\ \A k \in 1..Len(body) : body[k] \in Digits

\* The 1-based column a header gives a name.
ColumnOf(hdr, name) == CHOOSE c \in 1..Len(hdr) : hdr[c] = name

\* A table row whose position is missing or is no integer, or that is too
\* short to hold the chromosome.
Malformed(row) ==
    \/ Len(row) < ColumnOf(header, "Chromosome")
    \/ Len(row) < ColumnOf(header, "Position_GRCh37")
    \/ NonNumeric(row[ColumnOf(header, "Position_GRCh37")])

\* A table row that holds every column of the header, with a plain decimal
\* position.
WellFormed(row) ==
    /\ Len(row) = Len(header)
    /\ PlainDecimal(row[ColumnOf(header, "Position_GRCh37")])

CalledFor(k) == \E c \in 1..Len(calls) : calls[c].row_index = k - 1

RecordedInvalid(k) ==
    \E f \in 1..Len(failed_regions) :
        /\ failed_regions[f].kind = "Invalid Data"
        /\ failed_regions[f].row_number = k + 1
        /\ failed_regions[f].row = rows_read[k]

InvalidEntries == {f \in 1..Len(failed_regions) : failed_regions[f].kind = "Invalid Data"}

\* C1: a malformed table row (position missing or not an integer, or the
\* chromosome missing) is recorded in the failure list, run_bcftools is not
\* called for it, and it does not end the run, so later rows are still read;
\* a well-formed row gets exactly one call.  The calls and the recorded row
\* failures together account for every row read, in whatever order the rows
\* come.
C1_MalformedRowRecordedNotExtracted ==
    rows_read # <<>> =>
        /\ \A k \in 1..Len(rows_read) :
              /\ Malformed(rows_read[k]) => RecordedInvalid(k) /\ ~CalledFor(k)
              /\ WellFormed(rows_read[k]) => CalledFor(k) /\ ~RecordedInvalid(k)
        /\ Len(calls) + Cardinality(InvalidEntries) = Len(rows_read)
        /\ Malformed(Last(rows_read)) => pc # "Exited" /\ ~last_call.made

\* A finished run over a table of a malformed row followed by a well-formed
\* one: one call, one recorded row failure, one success.
C1_Witness ==
    /\ pc = "Done"
    /\ Len(rows_read) = 2
    /\ Len(rows_read[1]) = Len(header)
    /\ NonNumeric(rows_read[1][ColumnOf(header, "Position_GRCh37")])
    /\ Malformed(rows_read[1])
    /\ WellFormed(rows_read[2])
    /\ Len(calls) = 1
    /\ Len(successful_extractions) = 1
    /\ Cardinality(InvalidEntries) = 1
    /\ summary.printed

LaunchFailures == {"FileNotFoundError", "PermissionError"}

\* C2: whenever the tool could not be launched (executable not found, or
\* present but not launchable), the run has ended at that call with a
\* non-zero exit status and the row is not in the failure list.
C2_LaunchFailureIsFatal ==
    (last_call.made /\ last_call.outcome.kind \in LaunchFailures) =>
        /\ pc = "Exited"
        /\ exit_status # 0
        /\ Len(failed_regions) + Len(successful_extractions) < Len(rows_read)

\* extract_samples ended the run.
IndexingFailed == pc = "Exited" /\ index_runs = 1 /\ sample_count = 0

\* C3: extract_samples runs at most once, and has run (leaving a non-empty
\* allowlist) before any table row is read or any extraction attempted; when
\* it fails fatally the exit status is non-zero, no row was read, no
\* extraction attempted, and no empty allowlist file has been produced.
C3_IndexingOnceFatalLeavesNoEmptyAllowlist ==
    /\ index_runs <= 1
    /\ (pc \in {"OpenTable", "ReadingLoci", "Finalizing", "Done"}
          \/ rows_read # <<>> \/ calls # <<>>) =>
          index_runs = 1 /\ samples_file.exists /\ samples_file.lines # <<>>
    /\ IndexingFailed =>
          /\ exit_status # 0
          /\ rows_read = <<>>
          /\ calls = <<>>
          /\ ~(samples_file.exists /\ samples_file.lines = <<>>)

\* One of the fatal conditions has occurred: indexing failed, the table
\* could not be opened or its header lacks a required column, or the
\* executable was not found.
FatalOccurred ==
    \/ sample_count = 0
    \/ ~(HasCol(header, "Chromosome") /\ HasCol(header, "Position_GRCh37"))
    \/ last_call.made /\ last_call.result = "SystemExit"

\* C4: a run in which no fatal condition occurs never ends before the
\* summary: it ends in Done with the summary printed, whatever the number
\* of data rows (zero included) and whatever mix of outcomes.
C4_SummaryAlwaysPrinted ==
    /\ pc = "Exited" => FatalOccurred
    /\ pc = "Done" => summary.printed /\ exit_status = 0

\* C5: when the external process was launched, the call succeeds exactly
\* when the exit status is zero, error-stream text or not: status zero puts
\* the destination on the success list, any other status puts the region on
\* the failure list, and the row goes on no other list.
C5_SuccessIffExitStatusZero ==
    (last_call.made /\ last_call.outcome.kind = "exited") =>
        /\ last_call.result = "True" <=> last_call.outcome.returncode = 0
        /\ last_call.result \in {"True", "False"}
        /\ Len(successful_extractions) + Len(failed_regions) = Len(rows_read)
        /\ Len(successful_extractions) + Len(failed_regions)
              = Len(calls) + Cardinality(InvalidEntries)
        /\ last_call.outcome.returncode = 0 =>
              /\ successful_extractions # <<>>
              /\ Last(successful_extractions) = last_call.output
        /\ last_call.outcome.returncode # 0 =>
              /\ failed_regions # <<>>
              /\ Last(failed_regions) = FailedExtraction(last_call.region, last_call.url)

\* A call whose process exited with status zero and wrote to its error
\* stream, counted as a success.
C5_Witness ==
    /\ last_call.made
    /\ last_call.outcome.kind = "exited"
    /\ last_call.outcome.returncode = 0
    /\ last_call.outcome.stderr # <<>>
    /\ successful_extractions # <<>>
    /\ Last(successful_extractions) = last_call.output

\* C6: an extraction is attempted only for a row whose position is a
\* positive integer.
C6_OnlyPositivePositionsExtracted ==
    last_call.made => last_call.position > 0

\* C7: the region of every attempted extraction has start = max(1, p - W)
\* and end = p + W, with start >= 1 and start <= p <= end.
C7_WindowAroundPosition ==
    last_call.made =>
        /\ last_call.start = Max(1, last_call.position - REGION_WINDOW_SIZE)
        /\ last_call.end = last_call.position + REGION_WINDOW_SIZE
        /\ last_call.start >= 1
        /\ last_call.start <= last_call.position
        /\ last_call.position <= last_call.end
        /\ last_call.region =
              last_call.cleaned \o <<":">> \o Str(last_call.start)
                                \o <<"-">> \o Str(last_call.end)

\* The indices of the panel rows read so far that hold both columns and
\* carry the population code under the super_pop column.
MatchingPanelRows ==
    {k \in 1..Len(panel_rows) :
        /\ Len(panel_rows[k]) >= ColumnOf(panel_header, "sample")
        /\ Len(panel_rows[k]) >= ColumnOf(panel_header, "super_pop")
        /\ panel_rows[k][ColumnOf(panel_header, "super_pop")] = population_code}

\* C8: throughout the row loop of extract_samples, the allowlist file holds
\* exactly the sample ids of the rows read so far that are long enough and
\* whose super_pop cell equals the code, in input order, the two cells being
\* found under their header names.
C8_AllowlistIsMatchingSamplesInOrder ==
    pc = "PanelRows" =>
        /\ samples_file.exists
        /\ Len(samples_file.lines) = Cardinality(MatchingPanelRows)
        /\ sample_count = Cardinality(MatchingPanelRows)
        /\ \A k \in MatchingPanelRows :
              samples_file.lines[Cardinality({j \in MatchingPanelRows : j <= k})]
                 = panel_rows[k][ColumnOf(panel_header, "sample")]

\* Two matching rows of a panel whose columns are reordered, written in
\* input order.
C8_Witness ==
    /\ pc = "PanelRows"
    /\ panel_header = <<"super_pop", "sample">>
    /\ population_code = SAS
    /\ samples_file.lines = << <<"H", "G", "4">>, <<"H", "G", "2">> >>

\* C9, as stated: any two attempted rows have distinct destination paths.
C9_AllDestinationsDistinct ==
    \A a, b \in 1..Len(calls) : a # b => calls[a].output # calls[b].output

\* C9, amended: two attempted rows have distinct destination paths when the
\* table has no identifier column or their positions differ; with an
\* identifier column, two attempted rows that are the same line have the
\* same destination path.
C9_DestinationsDistinctByRowNumberOrPosition ==
    \A a, b \in 1..Len(calls) :
        a # b =>
            /\ (rsid_col_idx = NoRsidColumn \/ calls[a].position # calls[b].position)
                  => calls[a].output # calls[b].output
            /\ (rsid_col_idx # NoRsidColumn
                  /\ rows_read[calls[a].row_index + 1] = rows_read[calls[b].row_index + 1])
                  => calls[a].output = calls[b].output

\* A table without identifier column holding the same line twice: two
\* calls, two destinations.
C9_Witness ==
    /\ rsid_col_idx = NoRsidColumn
    /\ Len(calls) = 2
    /\ rows_read[calls[1].row_index + 1] = rows_read[calls[2].row_index + 1]
    /\ calls[1].output # calls[2].output

\* The field with a leading "chr" removed and nothing else changed.
WithoutChrPrefix(s) ==
    IF StartsWith(s, ChrPrefix) THEN SubSeq(s, Len(ChrPrefix) + 1, Len(s)) ELSE s

\* C10: the cleaned chromosome of every attempted extraction is the field
\* with a leading "chr" removed and nothing else changed: it does not begin
\* with "chr", cleaning it again changes nothing, a field without the prefix
\* passes unchanged, and the URL is the template with the cleaned token in
\* the placeholder's place.
C10_CleanedChromosomeIsPrefixStripped ==
    last_call.made =>
        /\ last_call.cleaned = WithoutChrPrefix(last_call.chromosome)
        /\ ~StartsWith(last_call.cleaned, ChrPrefix)
        /\ chromosome_cleaned(last_call.cleaned) = last_call.cleaned
        /\ ~StartsWith(last_call.chromosome, ChrPrefix)
              => last_call.cleaned = last_call.chromosome
        /\ last_call.url =
              <<"http://ftp.1000genomes.ebi.ac.uk/vol1/ftp/release/20130502/", "ALL.chr">>
              \o last_call.cleaned
              \o <<".phase3_shapeit2_mvncall_integrated_v5b.20130502.genotypes.vcf.gz">>

====
